---- MODULE Spec2Model ----
(***************************************************************************)
(* k8s-apply-lib: the generic apply operation (Applier) and the pipeline   *)
(* builder (Builder) on top of it.                                         *)
(*                                                                         *)
(* Bytes are sequences of one-character strings.  A manifest is written in *)
(* a three-letter shorthand of the YAML the library reads:                 *)
(*   kind letter ("S" ServiceAccount, "N" Namespace), name letter, and an  *)
(*   optional letter for metadata.namespace, then optional newlines.       *)
(* "$" stands for the template action {{ .Namespace }}, "!" for an action  *)
(* that does not parse ({{.foo}), "?" for the text <no value>.             *)
(*                                                                         *)
(* An error value is the sequence of its layers, outermost first; the nil  *)
(* error is the empty sequence and errors.Unwrap is Tail.                  *)
(***************************************************************************)
EXTENDS Integers, Sequences, FiniteSets, TLC

VARIABLES
    ac,                     \* the Applier built by New, or NoApplier
    last,                   \* the most recent call on the Applier and what it did
    fileToGenericResource,  \* Builder: filename -> bytes
    fileToTemplate,         \* Builder: filename -> template object
    owningResource,         \* Builder: owner, "nil" when none
    namespace,              \* Builder: target namespace
    predicatedCollectors,   \* Builder: collectors in registration order
    applyFilter,            \* Builder: filter, "nil" when none
    run,                    \* the most recent ExecuteApply: its calls and its error
    pieces,                 \* splitter: the documents a resource is joined from
    split                   \* splitter: the joined resource and its sections

vars == <<ac, last, fileToGenericResource, fileToTemplate, owningResource,
          namespace, predicatedCollectors, applyFilter, run, pieces, split>>

splitterVars == <<pieces, split>>

applierVars == <<ac, last>>

builderVars == <<fileToGenericResource, fileToTemplate, owningResource,
                 namespace, predicatedCollectors, applyFilter, run>>

----------------------------------------------------------------------------
(* Bounds of the model *)

MaxFmLen == 2

MaxCollectors == 2

MaxDocLen == 2

MaxDocs == 2

----------------------------------------------------------------------------
(* Input alphabets *)

Whitespace == {" ", "\t", "\n", "\r"}

FmChars == {" ", "a", "b"}

RECURSIVE SeqsUpTo(_, _)
SeqsUpTo(S, n) ==
    IF n = 0 THEN {<<>>}
    ELSE LET shorter == SeqsUpTo(S, n - 1)
         IN  shorter \cup {Append(s, c) : s \in shorter, c \in S}

FieldManagers == SeqsUpTo(FmChars, MaxFmLen)

ClusterConfigs == {"any", "core", "noDiscovery", "noDynamic"}

Namespaces == {"x", "y"}

Owners == {"ownX", "ownY", "ownU"}

KindChars == {"S", "N"}

NameChars == {"a", "b", "?"}

NsChars == {"x", "y"}

Documents ==
    { <<"S", "a">>, <<"S", "b", "y">>, <<"N", "a">>, <<"N", "b", "x", "\n">>,
      <<"S", "$">>, <<"!">> }

----------------------------------------------------------------------------
(* Errors *)

NoErr == <<>>

ErrLayer(type, msg) ==
    [type |-> type, msg |-> msg, kind |-> "", apiVersion |-> "",
     resourceName |-> "", doc |-> <<>>, file |-> ""]

Cause(msg) == <<ErrLayer("cause", msg)>>

NewResourceErrorDroppingCause(err, wrapperErrMsg, kind, apiVersion, resourceName) ==
    <<[ErrLayer("ResourceError", wrapperErrMsg) EXCEPT
          !.kind = kind, !.apiVersion = apiVersion,
          !.resourceName = resourceName]>>

NewResourceError(err, wrapperErrMsg, kind, apiVersion, resourceName) ==
    <<[ErrLayer("ResourceError", wrapperErrMsg) EXCEPT
          !.kind = kind, !.apiVersion = apiVersion,
          !.resourceName = resourceName]>> \o err

Unwrap(e) == IF e = NoErr THEN NoErr ELSE Tail(e)

----------------------------------------------------------------------------
(* Applier *)

NoApplier ==
    [built |-> FALSE, fieldManager |-> <<>>, cluster |-> "", scheme |-> "nil"]

NoObj ==
    [kind |-> "", apiVersion |-> "", name |-> "", namespace |-> "",
     ownerRef |-> "nil"]

Call(op) ==
    [op |-> op, kind |-> "", version |-> "", namespace |-> "", name |-> "",
     namespaced |-> FALSE, owner |-> "nil", payload |-> NoObj,
     fieldManager |-> <<>>, outcome |-> ""]

NoCall ==
    [op |-> "", doc |-> <<>>, namespace |-> "", owner |-> "nil",
     config |-> "", fieldManager |-> <<>>, calls |-> <<>>, err |-> NoErr]

RECURSIVE TrimLeft(_)
TrimLeft(s) ==
    IF s # <<>> /\ Head(s) \in Whitespace THEN TrimLeft(Tail(s)) ELSE s

RECURSIVE TrimRight(_)
TrimRight(s) ==
    IF s # <<>> /\ s[Len(s)] \in Whitespace
    THEN TrimRight(SubSeq(s, 1, Len(s) - 1))
    ELSE s

TrimSpaceNone(s) == s

TrimSpace(s) == TrimRight(TrimLeft(s))

createGVRMapper(clusterConfig) ==
    IF clusterConfig = "noDiscovery" THEN Cause("discovery client") ELSE NoErr

createDynamicClient(clusterConfig) ==
    IF clusterConfig = "noDynamic" THEN Cause("dynamic client") ELSE NoErr

NewResult(clusterConfig, fm) ==
    IF TrimSpace(fm) = <<>>
    THEN [ac |-> NoApplier, calls |-> <<>>,
          err |-> Cause("cannot create new Applier: fieldManager must not be empty")]
    ELSE LET mapCall == [Call("createGVRMapper") EXCEPT
                            !.outcome = IF createGVRMapper(clusterConfig) = NoErr
                                        THEN "ok" ELSE "err"]
             dynCall == [Call("createDynamicClient") EXCEPT
                            !.outcome = IF createDynamicClient(clusterConfig) = NoErr
                                        THEN "ok" ELSE "err"]
         IN  IF createGVRMapper(clusterConfig) # NoErr
             THEN [ac |-> NoApplier, calls |-> <<mapCall>>,
                   err |-> <<ErrLayer("fmt", "error while creating GVR mapper")>>
                           \o createGVRMapper(clusterConfig)]
             ELSE IF createDynamicClient(clusterConfig) # NoErr
             THEN [ac |-> NoApplier, calls |-> <<mapCall, dynCall>>,
                   err |-> <<ErrLayer("fmt", "error while creating dynamic client")>>
                           \o createDynamicClient(clusterConfig)]
             ELSE [ac |-> [built |-> TRUE, fieldManager |-> fm,
                          cluster |-> clusterConfig,
                          scheme |-> "schemeForCrdHandling"],
                   calls |-> <<mapCall, dynCall>>, err |-> NoErr]

RECURSIVE StripNewlines(_)
StripNewlines(doc) ==
    IF doc # <<>> /\ doc[Len(doc)] = "\n"
    THEN StripNewlines(SubSeq(doc, 1, Len(doc) - 1))
    ELSE doc

KindOf(c) == IF c = "S" THEN "ServiceAccount" ELSE "Namespace"

Decode(yamlResource) ==
    LET b == StripNewlines(yamlResource)
    IN  IF /\ Len(b) \in {2, 3}
           /\ b[1] \in KindChars
           /\ b[2] \in NameChars
           /\ (Len(b) = 3 => b[3] \in NsChars)
        THEN [ok |-> TRUE,
              obj |-> [kind |-> KindOf(b[1]), apiVersion |-> "v1", name |-> b[2],
                       namespace |-> IF Len(b) = 3 THEN b[3] ELSE "",
                       ownerRef |-> "nil"]]
        ELSE [ok |-> FALSE, obj |-> NoObj]

(* What the resource locator may answer for a kind: on the cluster "core"
   the core v1 kinds have their usual scope, on the cluster "any" a kind may
   be registered at either scope; a lookup can fail on both. *)
RESTMappingAnswers(applier, kind) ==
    IF applier.cluster = "core"
    THEN (IF kind = "ServiceAccount" THEN {"namespace", "err"} ELSE {"root", "err"})
    ELSE {"namespace", "root", "err"}

PatchAnswers == {"ok", "err"}

OwnerNamespace(owner) ==
    IF owner = "ownY" THEN "y" ELSE IF owner = "nil" THEN "" ELSE "x"

OwnerRegistered(owner) == owner \in {"ownX", "ownY"}

SetControllerReferenceUnchecked(owner, obj) ==
    [err |-> NoErr, obj |-> [obj EXCEPT !.ownerRef = owner]]

SetControllerReferenceNotAttached(owner, obj) ==
    IF OwnerNamespace(owner) # "" /\ OwnerNamespace(owner) # obj.namespace
    THEN [err |-> Cause("cross-namespace owner references are disallowed"),
          obj |-> obj]
    ELSE IF ~OwnerRegistered(owner)
    THEN [err |-> Cause("no kind is registered for the owner type"), obj |-> obj]
    ELSE [err |-> NoErr, obj |-> obj]

SetControllerReference(owner, obj) ==
    IF OwnerNamespace(owner) # "" /\ OwnerNamespace(owner) # obj.namespace
    THEN [err |-> Cause("cross-namespace owner references are disallowed"),
          obj |-> obj]
    ELSE IF ~OwnerRegistered(owner)
    THEN [err |-> Cause("no kind is registered for the owner type"), obj |-> obj]
    ELSE [err |-> NoErr, obj |-> [obj EXCEPT !.ownerRef = owner]]

SetNamespaceDropped(obj, ns) == obj

SetNamespace(obj, ns) == [obj EXCEPT !.namespace = ns]

Marshal(obj) == [err |-> NoErr, data |-> obj]

PatchOptionsFieldManagerFixed(applier) == <<"k", "8", "s">>

PatchOptionsFieldManager(applier) == applier.fieldManager

PatchErrorPlain(cause, desiredResource) ==
    <<ErrLayer("fmt", "error while patching")>> \o cause

PatchError(cause, desiredResource) ==
    NewResourceError(cause, "error while patching", desiredResource.kind,
                     desiredResource.apiVersion, desiredResource.name)

PatchCallsRetried(patch) ==
    IF patch.outcome = "err" THEN <<patch, patch>> ELSE <<patch>>

PatchCalls(patch) == <<patch>>

createOrUpdateResource(applier, desiredResource, calls, namespaced, ns) ==
    IF Marshal(desiredResource).err # NoErr
    THEN {[calls |-> calls,
           err |-> NewResourceError(Marshal(desiredResource).err,
                                    "error while parsing resource to json",
                                    desiredResource.kind,
                                    desiredResource.apiVersion,
                                    desiredResource.name)]}
    ELSE { LET patch == [Call("Patch") EXCEPT
                            !.kind = desiredResource.kind,
                            !.name = desiredResource.name,
                            !.namespaced = namespaced,
                            !.namespace = ns,
                            !.payload = Marshal(desiredResource).data,
                            !.fieldManager = PatchOptionsFieldManager(applier),
                            !.outcome = answer]
           IN  [calls |-> calls \o PatchCalls(patch),
                err |-> IF answer = "err"
                        THEN PatchError(Cause("the API rejected the patch"),
                                        desiredResource)
                        ELSE NoErr]
           : answer \in PatchAnswers }

IsNamespaceScopeAlways(answer) == TRUE

IsNamespaceScopeNever(answer) == FALSE

IsNamespaceScope(answer) == answer = "namespace"

DecodeError(yamlResource) ==
    <<[ErrLayer("fmt", "could not decode YAML doccument") EXCEPT
          !.doc = yamlResource]>> \o Cause("yaml: not a single resource")

MappingError(yamlResource, obj) ==
    <<[ErrLayer("fmt", "could find GVK mapper for GroupKind=%v,Version=%s and YAML doccument")
          EXCEPT !.kind = obj.kind, !.apiVersion = obj.apiVersion,
                 !.doc = yamlResource]>> \o Cause("no matches for kind")

OwnerError(yamlResource, cause) ==
    <<[ErrLayer("fmt", "could not apply YAML doccument: could not set controller reference")
          EXCEPT !.doc = yamlResource]>> \o cause

ApplyAfterMapping(applier, yamlResource, ns, owner, obj, answer) ==
    LET mapCall == [Call("RESTMapping") EXCEPT
                       !.kind = obj.kind, !.version = obj.apiVersion,
                       !.outcome = answer]
        resCall == [Call("Resource") EXCEPT !.kind = obj.kind]
    IN  IF answer = "err"
        THEN {[calls |-> <<mapCall>>, err |-> MappingError(yamlResource, obj)]}
        ELSE IF IsNamespaceScope(answer)
        THEN LET stamped == SetNamespace(obj, ns)
                 nsCall == [Call("Namespace") EXCEPT !.namespace = ns]
                 ref == SetControllerReference(owner, stamped)
                 refCall == [Call("SetControllerReference") EXCEPT
                                !.owner = owner,
                                !.outcome = IF ref.err = NoErr THEN "ok" ELSE "err"]
             IN  IF owner # "nil"
                 THEN IF ref.err # NoErr
                      THEN {[calls |-> <<mapCall, resCall, nsCall, refCall>>,
                             err |-> OwnerError(yamlResource, ref.err)]}
                      ELSE createOrUpdateResource(applier, ref.obj,
                               <<mapCall, resCall, nsCall, refCall>>, TRUE, ns)
                 ELSE createOrUpdateResource(applier, stamped,
                          <<mapCall, resCall, nsCall>>, TRUE, ns)
        ELSE createOrUpdateResource(applier, obj, <<mapCall, resCall>>, FALSE, "")

ApplyWithOwnerResults(applier, yamlResource, ns, owner) ==
    IF ~Decode(yamlResource).ok
    THEN {[calls |-> <<>>, err |-> DecodeError(yamlResource)]}
    ELSE UNION { ApplyAfterMapping(applier, yamlResource, ns, owner,
                                   Decode(yamlResource).obj, answer)
                 : answer \in RESTMappingAnswers(applier, Decode(yamlResource).obj.kind) }

New(clusterConfig, fm) ==
    /\ ~ac.built
    /\ ac' = NewResult(clusterConfig, fm).ac
    /\ last' = [NoCall EXCEPT !.op = "New", !.config = clusterConfig,
                              !.fieldManager = fm,
                              !.calls = NewResult(clusterConfig, fm).calls,
                              !.err = NewResult(clusterConfig, fm).err]
    /\ UNCHANGED <<builderVars, splitterVars>>

ApplyWithOwner(yamlResource, ns, owner) ==
    /\ ac.built
    /\ \E r \in ApplyWithOwnerResults(ac, yamlResource, ns, owner) :
          last' = [NoCall EXCEPT !.op = "ApplyWithOwner", !.doc = yamlResource,
                                 !.namespace = ns, !.owner = owner,
                                 !.calls = r.calls, !.err = r.err]
    /\ UNCHANGED <<ac, builderVars, splitterVars>>

ApplyResultsAsOwned(applier, yamlResource, ns) ==
    ApplyWithOwnerResults(applier, yamlResource, ns, "ownX")

ApplyResults(applier, yamlResource, ns) ==
    ApplyWithOwnerResults(applier, yamlResource, ns, "nil")

Apply(yamlResource, ns) ==
    /\ ac.built
    /\ \E r \in ApplyResults(ac, yamlResource, ns) :
          last' = [NoCall EXCEPT !.op = "Apply", !.doc = yamlResource,
                                 !.namespace = ns, !.calls = r.calls,
                                 !.err = r.err]
    /\ UNCHANGED <<ac, builderVars, splitterVars>>

----------------------------------------------------------------------------
(* Builder *)

Files == {"f1", "f2"}

multiDocTemplate == <<"N", "$", "\n", "-", "-", "-", "\n", "S", "a", "\n">>

singleDoc == <<"S", "b", "x", "\n">>

invalidTemplate == <<"!">>

YamlResources == {multiDocTemplate, singleDoc, invalidTemplate}

TemplateObjects == {"nsA"}

Collectors == {"ns", "fail"}

Filters == {"sa", "fail"}

BuilderOwners == {"ownX"}

(* The namespace the builder is given: the owner's own; the namespace the
   builder starts with is the empty one. *)
BuilderNamespaces == {"x"}

NoRun == [ran |-> FALSE, log |-> <<>>, err |-> NoErr]

Event(op) ==
    [op |-> op, file |-> "", idx |-> 0, k |-> 0, who |-> "", doc |-> <<>>,
     namespace |-> "", owner |-> "nil", result |-> "", err |-> NoErr,
     calls |-> <<>>]

PutKeepingFirst(m, key, value) ==
    [x \in DOMAIN m \cup {key} |-> IF x \in DOMAIN m THEN m[x] ELSE value]

Put(m, key, value) ==
    [x \in DOMAIN m \cup {key} |-> IF x = key THEN value ELSE m[x]]

NewBuilder ==
    /\ fileToGenericResource = [f \in {} |-> <<>>]
    /\ fileToTemplate = [f \in {} |-> "nil"]
    /\ owningResource = "nil"
    /\ namespace = ""
    /\ predicatedCollectors = <<>>
    /\ applyFilter = "nil"
    /\ run = NoRun

WithYamlResource(filename, yamlResource) ==
    /\ fileToGenericResource' = Put(fileToGenericResource, filename, yamlResource)
    /\ run' = NoRun
    /\ UNCHANGED <<applierVars, splitterVars, fileToTemplate, owningResource, namespace,
                   predicatedCollectors, applyFilter>>

WithTemplate(filename, templateObject) ==
    /\ fileToTemplate' = Put(fileToTemplate, filename, templateObject)
    /\ run' = NoRun
    /\ UNCHANGED <<applierVars, splitterVars, fileToGenericResource, owningResource, namespace,
                   predicatedCollectors, applyFilter>>

WithOwner(owner) ==
    /\ owningResource' = owner
    /\ run' = NoRun
    /\ UNCHANGED <<applierVars, splitterVars, fileToGenericResource, fileToTemplate, namespace,
                   predicatedCollectors, applyFilter>>

WithNamespace(ns) ==
    /\ namespace' = ns
    /\ run' = NoRun
    /\ UNCHANGED <<applierVars, splitterVars, fileToGenericResource, fileToTemplate,
                   owningResource, predicatedCollectors, applyFilter>>

WithCollector(collector) ==
    /\ Len(predicatedCollectors) < MaxCollectors
    /\ predicatedCollectors' = Append(predicatedCollectors, collector)
    /\ run' = NoRun
    /\ UNCHANGED <<applierVars, splitterVars, fileToGenericResource, fileToTemplate,
                   owningResource, namespace, applyFilter>>

WithApplyFilter(filter) ==
    /\ applyFilter' = filter
    /\ run' = NoRun
    /\ UNCHANGED <<applierVars, splitterVars, fileToGenericResource, fileToTemplate,
                   owningResource, namespace, predicatedCollectors>>

(* text/template on the shorthand: "!" does not parse; "$" is the field
   .Namespace, which a struct without that field cannot evaluate, nil data
   prints as <no value>, and the struct {Namespace: "a"} prints as a. *)
renderTemplate(filename, templateText, templateObject) ==
    IF \E i \in DOMAIN templateText : templateText[i] = "!"
    THEN [bytes |-> <<>>,
          err |-> <<[ErrLayer("fmt", "failed to parse template for file %s")
                        EXCEPT !.file = filename]>>
                  \o Cause("template: unclosed action")]
    ELSE IF /\ templateObject = "empty"
            /\ \E i \in DOMAIN templateText : templateText[i] = "$"
    THEN [bytes |-> <<>>,
          err |-> <<[ErrLayer("fmt", "failed to render template for file %s")
                        EXCEPT !.file = filename]>>
                  \o Cause("template: can't evaluate field Namespace")]
    ELSE [bytes |-> [i \in DOMAIN templateText |->
                        IF templateText[i] = "$"
                        THEN (IF templateObject = "nil" THEN "?" ELSE "a")
                        ELSE templateText[i]],
          err |-> NoErr]

TemplateOf(templates, filename) ==
    IF filename \in DOMAIN templates THEN templates[filename] ELSE "nil"

RenderStopsNever(err) == FALSE

RenderStops(err) == err # NoErr

RECURSIVE renderLoopAllOrNothing(_, _, _)
renderLoopAllOrNothing(files, todo, log) ==
    IF todo = {}
    THEN {[files |-> files, log |-> log, err |-> NoErr]}
    ELSE UNION {
           LET templateObject == TemplateOf(fileToTemplate, f)
               r == renderTemplate(f, files[f], templateObject)
               ev == [Event("renderTemplate") EXCEPT
                         !.file = f, !.who = templateObject, !.doc = files[f],
                         !.result = IF r.err = NoErr THEN "ok" ELSE "err",
                         !.err = r.err]
           IN  IF RenderStops(r.err)
               THEN {[files |-> fileToGenericResource, log |-> Append(log, ev),
                      err |-> r.err]}
               ELSE renderLoopAllOrNothing([files EXCEPT ![f] = r.bytes],
                                           todo \ {f}, Append(log, ev))
           : f \in todo }

RECURSIVE renderLoop(_, _, _)
renderLoop(files, todo, log) ==
    IF todo = {}
    THEN {[files |-> files, log |-> log, err |-> NoErr]}
    ELSE UNION {
           LET templateObject == TemplateOf(fileToTemplate, f)
               r == renderTemplate(f, files[f], templateObject)
               ev == [Event("renderTemplate") EXCEPT
                         !.file = f, !.who = templateObject, !.doc = files[f],
                         !.result = IF r.err = NoErr THEN "ok" ELSE "err",
                         !.err = r.err]
           IN  IF RenderStops(r.err)
               THEN {[files |-> files, log |-> Append(log, ev), err |-> r.err]}
               ELSE renderLoop([files EXCEPT ![f] = r.bytes], todo \ {f},
                               Append(log, ev))
           : f \in todo }

renderTemplates ==
    IF DOMAIN fileToTemplate = {}
    THEN {[files |-> fileToGenericResource, log |-> <<>>, err |-> NoErr]}
    ELSE renderLoop(fileToGenericResource, DOMAIN fileToGenericResource, <<>>)

yamlFileSeparator == <<"-", "-", "-", "\n">>

SeparatorAtDashes(s, i) ==
    /\ i + 2 <= Len(s)
    /\ SubSeq(s, i, i + 2) = <<"-", "-", "-">>

SeparatorAtLineStart(s, i) ==
    /\ i + Len(yamlFileSeparator) - 1 <= Len(s)
    /\ SubSeq(s, i, i + Len(yamlFileSeparator) - 1) = yamlFileSeparator
    /\ (i = 1 \/ s[i - 1] = "\n")

SeparatorAt(s, i) ==
    /\ i + Len(yamlFileSeparator) - 1 <= Len(s)
    /\ SubSeq(s, i, i + Len(yamlFileSeparator) - 1) = yamlFileSeparator

(* bytes.Split: cut at every occurrence of the separator, left to right
   and without overlap; empty sections are kept. *)
RECURSIVE BytesSplit(_)
BytesSplit(s) ==
    IF \E i \in 1..Len(s) : SeparatorAt(s, i)
    THEN LET i == CHOOSE x \in 1..Len(s) :
                     /\ SeparatorAt(s, x)
                     /\ \A y \in 1..(x - 1) : ~SeparatorAt(s, y)
         IN  <<SubSeq(s, 1, i - 1)>>
             \o BytesSplit(SubSeq(s, i + Len(yamlFileSeparator), Len(s)))
    ELSE <<s>>

splitResourceIntoDocumentsTrimmed(resourceBytes) ==
    SelectSeq([i \in DOMAIN BytesSplit(resourceBytes) |->
                  TrimSpace(BytesSplit(resourceBytes)[i])],
              LAMBDA section : Len(section) > 0)

splitResourceIntoDocuments(resourceBytes) ==
    SelectSeq(BytesSplit(resourceBytes), LAMBDA section : Len(section) > 0)

splitYamlDocsReversed(files) ==
    [f \in DOMAIN files |->
        [i \in DOMAIN splitResourceIntoDocuments(files[f]) |->
            splitResourceIntoDocuments(files[f])
               [Len(splitResourceIntoDocuments(files[f])) + 1 - i]]]

splitYamlDocs(files) ==
    [f \in DOMAIN files |-> splitResourceIntoDocuments(files[f])]

(* The predicates of the tests' collectors and filters: the two kind
   matchers fail on a document they cannot unmarshal, the failing one fails
   on every document. *)
Predicate(who, doc) ==
    IF who = "fail" \/ ~Decode(doc).ok THEN "err"
    ELSE IF who = "ns" /\ Decode(doc).obj.kind = "Namespace" THEN "true"
    ELSE IF who = "sa" /\ Decode(doc).obj.kind = "ServiceAccount" THEN "true"
    ELSE "false"

CollectsAlways(ok) == TRUE

Collects(ok) == ok = "true"

WrapfWithoutFile(msg, filename, doc, err) ==
    <<[ErrLayer("fmt", msg) EXCEPT !.doc = doc]>> \o err

Wrapf(msg, filename, doc, err) ==
    <<[ErrLayer("fmt", msg) EXCEPT !.file = filename, !.doc = doc]>> \o err

RECURSIVE runCollectorsBackwards(_, _, _, _, _)
runCollectorsBackwards(k, filename, idx, doc, log) ==
    IF k > Len(predicatedCollectors)
    THEN [log |-> log, err |-> NoErr]
    ELSE LET j == Len(predicatedCollectors) + 1 - k
             ok == Predicate(predicatedCollectors[j], doc)
             asked == [Event("Predicate") EXCEPT
                          !.file = filename, !.idx = idx, !.k = j,
                          !.who = predicatedCollectors[j], !.doc = doc,
                          !.result = ok]
             collected == [Event("Collect") EXCEPT
                              !.file = filename, !.idx = idx, !.k = j,
                              !.who = predicatedCollectors[j], !.doc = doc]
         IN  IF ok = "err"
             THEN [log |-> Append(log, [asked EXCEPT !.err = Cause("predicate failed")]),
                   err |-> Wrapf("error matching predicate against doc [%s]",
                                 "", doc, Cause("predicate failed"))]
             ELSE runCollectorsBackwards(k + 1, filename, idx, doc,
                                         IF Collects(ok)
                                         THEN log \o <<asked, collected>>
                                         ELSE Append(log, asked))

RECURSIVE runCollectorsPastErrors(_, _, _, _, _)
runCollectorsPastErrors(k, filename, idx, doc, log) ==
    IF k > Len(predicatedCollectors)
    THEN [log |-> log, err |-> NoErr]
    ELSE LET ok == Predicate(predicatedCollectors[k], doc)
             asked == [Event("Predicate") EXCEPT
                          !.file = filename, !.idx = idx, !.k = k,
                          !.who = predicatedCollectors[k], !.doc = doc,
                          !.result = ok]
             collected == [Event("Collect") EXCEPT
                              !.file = filename, !.idx = idx, !.k = k,
                              !.who = predicatedCollectors[k], !.doc = doc]
         IN  runCollectorsPastErrors(k + 1, filename, idx, doc,
                                     IF Collects(ok)
                                     THEN log \o <<asked, collected>>
                                     ELSE Append(log, asked))

RECURSIVE runCollectors(_, _, _, _, _)
runCollectors(k, filename, idx, doc, log) ==
    IF k > Len(predicatedCollectors)
    THEN [log |-> log, err |-> NoErr]
    ELSE LET ok == Predicate(predicatedCollectors[k], doc)
             asked == [Event("Predicate") EXCEPT
                          !.file = filename, !.idx = idx, !.k = k,
                          !.who = predicatedCollectors[k], !.doc = doc,
                          !.result = ok]
             collected == [Event("Collect") EXCEPT
                              !.file = filename, !.idx = idx, !.k = k,
                              !.who = predicatedCollectors[k], !.doc = doc]
         IN  IF ok = "err"
             THEN [log |-> Append(log, [asked EXCEPT !.err = Cause("predicate failed")]),
                   err |-> Wrapf("error matching predicate against doc [%s]",
                                 "", doc, Cause("predicate failed"))]
             ELSE runCollectors(k + 1, filename, idx, doc,
                                IF Collects(ok)
                                THEN log \o <<asked, collected>>
                                ELSE Append(log, asked))

FilterSkipsNever(ok) == FALSE

FilterSkips(ok) == ok # "true"

applierArgumentsWithoutOwner == [namespace |-> namespace, owner |-> "nil"]

(* What applyDoc hands to the Applier besides the document: the builder's
   namespace and owner as they are at the time of the run. *)
applierArguments == [namespace |-> namespace, owner |-> owningResource]

applyDoc(filename, idx, doc, log) ==
    LET entered == [Event("applyDoc") EXCEPT
                       !.file = filename, !.idx = idx, !.doc = doc]
        c == runCollectors(1, filename, idx, doc, Append(log, entered))
        ok == Predicate(applyFilter, doc)
        filtered == [Event("Filter") EXCEPT
                        !.file = filename, !.idx = idx, !.who = applyFilter,
                        !.doc = doc, !.result = ok,
                        !.err = IF ok = "err" THEN Cause("predicate failed")
                                ELSE NoErr]
        base == IF applyFilter # "nil" THEN Append(c.log, filtered) ELSE c.log
    IN  IF c.err # NoErr
        THEN {[log |-> c.log,
               err |-> Wrapf("resource collection failed for file %s",
                             filename, <<>>, c.err)]}
        ELSE IF applyFilter # "nil" /\ ok = "err"
        THEN {[log |-> base,
               err |-> Wrapf("filtering resource failed for file %s",
                             filename, <<>>, Cause("predicate failed"))]}
        ELSE IF applyFilter # "nil" /\ FilterSkips(ok)
        THEN {[log |-> base, err |-> NoErr]}
        ELSE { [log |-> Append(base,
                          [Event("ApplyWithOwner") EXCEPT
                              !.file = filename, !.idx = idx, !.doc = doc,
                              !.namespace = applierArguments.namespace,
                              !.owner = applierArguments.owner,
                              !.result = IF r.err = NoErr THEN "ok" ELSE "err",
                              !.err = r.err, !.calls = r.calls]),
                 err |-> IF r.err = NoErr THEN NoErr
                         ELSE Wrapf("resource application failed for file %s",
                                    filename, <<>>, r.err)]
               : r \in ApplyWithOwnerResults(ac, doc, applierArguments.namespace,
                                             applierArguments.owner) }

ExecuteApplyStopsNever(err) == FALSE

ExecuteApplyStops(err) == err # NoErr

RECURSIVE docLoop(_, _, _, _)
docLoop(filename, yamlDocs, idx, log) ==
    IF idx > Len(yamlDocs)
    THEN {[log |-> log, err |-> NoErr]}
    ELSE UNION { IF ExecuteApplyStops(r.err)
                 THEN {r}
                 ELSE docLoop(filename, yamlDocs, idx + 1, r.log)
                 : r \in applyDoc(filename, idx, yamlDocs[idx], log) }

RECURSIVE fileLoopInFixedOrder(_, _, _)
fileLoopInFixedOrder(fileToSingleYamlDocs, todo, log) ==
    IF todo = {}
    THEN {[log |-> log, err |-> NoErr]}
    ELSE LET f == CHOOSE x \in todo : TRUE
         IN  UNION { IF r.err # NoErr
                     THEN {r}
                     ELSE fileLoopInFixedOrder(fileToSingleYamlDocs,
                                               todo \ {f}, r.log)
                     : r \in docLoop(f, fileToSingleYamlDocs[f], 1, log) }

RECURSIVE fileLoop(_, _, _)
fileLoop(fileToSingleYamlDocs, todo, log) ==
    IF todo = {}
    THEN {[log |-> log, err |-> NoErr]}
    ELSE UNION { UNION { IF r.err # NoErr
                         THEN {r}
                         ELSE fileLoop(fileToSingleYamlDocs, todo \ {f}, r.log)
                         : r \in docLoop(f, fileToSingleYamlDocs[f], 1, log) }
                 : f \in todo }

ExecuteApplyResults ==
    UNION { IF RenderStops(rendered.err)
            THEN {rendered}
            ELSE { [files |-> rendered.files, log |-> r.log, err |-> r.err]
                   : r \in fileLoop(splitYamlDocs(rendered.files),
                                    DOMAIN rendered.files, rendered.log) }
            : rendered \in renderTemplates }

ExecuteApplyConsuming ==
    /\ ac.built
    /\ \E r \in ExecuteApplyResults :
          /\ fileToGenericResource' = [f \in {} |-> <<>>]
          /\ run' = [ran |-> TRUE, log |-> r.log, err |-> r.err]
    /\ UNCHANGED <<applierVars, splitterVars, fileToTemplate, owningResource,
                   namespace, predicatedCollectors, applyFilter>>

ExecuteApplyForgettingFilter ==
    /\ ac.built
    /\ \E r \in ExecuteApplyResults :
          /\ fileToGenericResource' = r.files
          /\ run' = [ran |-> TRUE, log |-> r.log, err |-> r.err]
    /\ applyFilter' = "nil"
    /\ UNCHANGED <<applierVars, splitterVars, fileToTemplate, owningResource,
                   namespace, predicatedCollectors>>

ExecuteApply ==
    /\ ac.built
    /\ \E r \in ExecuteApplyResults :
          /\ fileToGenericResource' = r.files
          /\ run' = [ran |-> TRUE, log |-> r.log, err |-> r.err]
    /\ UNCHANGED <<applierVars, splitterVars, fileToTemplate, owningResource, namespace,
                   predicatedCollectors, applyFilter>>

(* The splitter on its own: a resource joined from documents with the
   separator between them is split again. *)

SplitChars == {"-", "\n", "a"}

SplitDocs ==
    SeqsUpTo(SplitChars, MaxDocLen)
    \cup {yamlFileSeparator, <<"a">> \o yamlFileSeparator \o <<"a">>}

NoSplit == [ran |-> FALSE, resourceBytes |-> <<>>, sections |-> <<>>]

RECURSIVE Join(_)
Join(docs) ==
    IF docs = <<>> THEN <<>>
    ELSE IF Len(docs) = 1 THEN docs[1]
    ELSE docs[1] \o yamlFileSeparator \o Join(Tail(docs))

SplitJoined ==
    /\ ~split.ran
    /\ split' = [ran |-> TRUE, resourceBytes |-> Join(pieces),
                 sections |-> splitResourceIntoDocuments(Join(pieces))]
    /\ UNCHANGED <<applierVars, builderVars, pieces>>

----------------------------------------------------------------------------
(* Specifications *)

ApplierInit ==
    /\ ac = NoApplier
    /\ last = NoCall
    /\ NewBuilder
    /\ pieces = <<>>
    /\ split = NoSplit

ApplierNext ==
    \/ \E c \in ClusterConfigs, fm \in FieldManagers : New(c, fm)
    \/ \E d \in Documents, ns \in Namespaces \cup {""}, o \in Owners \cup {"nil"} :
          ApplyWithOwner(d, ns, o)
    \/ \E d \in Documents, ns \in Namespaces \cup {""} : Apply(d, ns)

ApplierSpec == ApplierInit /\ [][ApplierNext]_vars

BuilderInit ==
    /\ ac = NewResult("core", <<"a">>).ac
    /\ last = NoCall
    /\ NewBuilder
    /\ pieces = <<>>
    /\ split = NoSplit

BuilderNext ==
    \/ \E f \in Files, y \in YamlResources : WithYamlResource(f, y)
    \/ \E f \in Files, t \in TemplateObjects : WithTemplate(f, t)
    \/ \E o \in BuilderOwners : WithOwner(o)
    \/ \E ns \in BuilderNamespaces : WithNamespace(ns)
    \/ \E c \in Collectors : WithCollector(c)
    \/ \E f \in Filters : WithApplyFilter(f)
    \/ ExecuteApply

BuilderSpec == BuilderInit /\ [][BuilderNext]_vars

SplitterInit ==
    /\ ac = NoApplier
    /\ last = NoCall
    /\ NewBuilder
    /\ pieces \in SeqsUpTo(SplitDocs, MaxDocs)
    /\ split = NoSplit

SplitterNext == SplitJoined

SplitterSpec == SplitterInit /\ [][SplitterNext]_vars

----------------------------------------------------------------------------
(* Properties of one Apply / ApplyWithOwner call, read off `last` *)

IsApplyCall == last.op \in {"Apply", "ApplyWithOwner"}

CallsOf(op) == {i \in DOMAIN last.calls : last.calls[i].op = op}

Answered(op, outcome) ==
    \E i \in CallsOf(op) : last.calls[i].outcome = outcome

DecodeFailed == ~Decode(last.doc).ok

ResolutionFailed == Answered("RESTMapping", "err")

OwnerSettingFailed == Answered("SetControllerReference", "err")

(* C1: a valid document whose kind resolves to namespace scope, given to
   Apply(doc, ns), is patched exactly once, on the handle scoped to ns, and
   the patched object's metadata.namespace is ns whatever the document
   declared. *)
C1_NamespacedApplyPatchesOnceInNs ==
    (/\ last.op = "Apply"
     /\ ~DecodeFailed
     /\ Answered("RESTMapping", "namespace"))
    => /\ Cardinality(CallsOf("Patch")) = 1
       /\ \A i \in CallsOf("Patch") :
             /\ last.calls[i].namespaced
             /\ last.calls[i].namespace = last.namespace
             /\ last.calls[i].payload.namespace = last.namespace
             /\ last.calls[i].name = Decode(last.doc).obj.name

C1_Witness ==
    /\ last.op = "Apply"
    /\ Answered("RESTMapping", "namespace")
    /\ Decode(last.doc).obj.namespace = "y"
    /\ last.namespace = "x"
    /\ \E i \in CallsOf("Patch") : last.calls[i].payload.namespace = "x"

(* C2: a valid document whose kind resolves to cluster scope is patched on
   the cluster-wide handle with the object as decoded: the caller's namespace
   is not written into it and no owner reference is attempted or attached,
   also for a non-nil owner; the patch is still issued. *)
C2_ClusterScopeNoNamespaceNoOwner ==
    (/\ IsApplyCall
     /\ ~DecodeFailed
     /\ Answered("RESTMapping", "root"))
    => /\ CallsOf("Namespace") = {}
       /\ CallsOf("SetControllerReference") = {}
       /\ Cardinality(CallsOf("Patch")) = 1
       /\ \A i \in CallsOf("Patch") :
             /\ ~last.calls[i].namespaced
             /\ last.calls[i].payload = Decode(last.doc).obj
             /\ last.calls[i].payload.ownerRef = "nil"

C2_Witness ==
    /\ last.op = "ApplyWithOwner"
    /\ last.owner = "ownX"
    /\ last.namespace = "x"
    /\ Answered("RESTMapping", "root")
    /\ \E i \in CallsOf("Patch") :
          /\ last.calls[i].payload.namespace = ""
          /\ last.calls[i].outcome = "ok"

(* C3: one call makes exactly one patch attempt when decoding, resolution and
   owner-setting succeed and none when one of them fails; a failed patch is
   not repeated. *)
C3_OnePatchOrNone ==
    IsApplyCall
    => Cardinality(CallsOf("Patch")) =
          IF DecodeFailed \/ ResolutionFailed \/ OwnerSettingFailed
          THEN 0 ELSE 1

C3_Witness ==
    /\ last.op = "ApplyWithOwner"
    /\ last.owner = "ownX"
    /\ last.err # NoErr
    /\ Cardinality(CallsOf("Patch")) = 1
    /\ Answered("Patch", "err")

(* C9 as claimed: every error of Apply / ApplyWithOwner, whatever step
   failed, is the structured resource error with the kind, apiVersion and
   name of the resource and the underlying cause. *)
C9_EveryErrorIsResourceError ==
    (IsApplyCall /\ last.err # NoErr)
    => /\ Head(last.err).type = "ResourceError"
       /\ Head(last.err).kind = Decode(last.doc).obj.kind
       /\ Head(last.err).apiVersion = Decode(last.doc).obj.apiVersion
       /\ Head(last.err).resourceName = Decode(last.doc).obj.name
       /\ Unwrap(last.err) # NoErr

(* C9 amended: an error of the patch step is the structured resource error
   with the kind, apiVersion and name of the resource and the client's error
   as its cause; an error of decoding, resolution or owner-setting is a plain
   wrapped error that carries the document text and the underlying cause. *)
C9_ResourceErrorOnlyFromPatch ==
    (IsApplyCall /\ last.err # NoErr)
    => /\ Len(last.err) = 2
       /\ last.err[2].type = "cause"
       /\ IF CallsOf("Patch") # {}
          THEN /\ Head(last.err).type = "ResourceError"
               /\ Head(last.err).kind = Decode(last.doc).obj.kind
               /\ Head(last.err).apiVersion = Decode(last.doc).obj.apiVersion
               /\ Head(last.err).resourceName = Decode(last.doc).obj.name
          ELSE /\ Head(last.err).type = "fmt"
               /\ Head(last.err).doc = last.doc
               /\ DecodeFailed \/ ResolutionFailed \/ OwnerSettingFailed

C9_Witness ==
    /\ IsApplyCall
    /\ Answered("Patch", "err")
    /\ Head(last.err).type = "ResourceError"
    /\ Head(last.err).resourceName = "b"

(* C10: every patch carries the fieldManager string New was given; that
   string is not blank and the Applier's identity never changes once built. *)
C10_FieldManagerOnEveryPatch ==
    /\ [](/\ (last.op = "New" /\ ac.built) => ac.fieldManager = last.fieldManager
          /\ ac.built => TrimSpace(ac.fieldManager) # <<>>
          /\ IsApplyCall =>
                \A i \in CallsOf("Patch") :
                   last.calls[i].fieldManager = ac.fieldManager)
    /\ [][ac.built => ac' = ac]_vars

C10_Witness ==
    /\ ac.built
    /\ ac.fieldManager = <<"a", "b">>
    /\ IsApplyCall
    /\ \E i \in CallsOf("Patch") : last.calls[i].fieldManager = <<"a", "b">>

----------------------------------------------------------------------------
(* Properties of one ExecuteApply, read off `run` and the builder state it
   left *)

IsSuffix(a, b) ==
    /\ Len(a) <= Len(b)
    /\ SubSeq(b, Len(b) - Len(a) + 1, Len(b)) = a

EventsOf(op) == {p \in DOMAIN run.log : run.log[p].op = op}

EventsAt(op, filename, idx) ==
    {p \in EventsOf(op) : run.log[p].file = filename /\ run.log[p].idx = idx}

DocsOf(filename) == splitResourceIntoDocuments(fileToGenericResource[filename])

AllDocs ==
    UNION { {<<f, i>> : i \in 1..Len(DocsOf(f))}
            : f \in DOMAIN fileToGenericResource }

(* C4: the first failing call of a run, whatever its kind, is the last call
   of the run, and the run returns its error: nothing is collected, filtered
   or applied after it. *)
C4_FirstErrorEndsRun ==
    run.ran
    => /\ \A p \in DOMAIN run.log :
             run.log[p].result = "err" => (p = Len(run.log) /\ run.err # NoErr)
       /\ run.err # NoErr
             => /\ run.log # <<>>
                /\ run.log[Len(run.log)].result = "err"
                /\ run.log[Len(run.log)].err # NoErr
                /\ IsSuffix(run.log[Len(run.log)].err, run.err)
                /\ \A d \in AllDocs :
                      (\/ d[1] # run.log[Len(run.log)].file
                       \/ d[2] > run.log[Len(run.log)].idx)
                      => \/ EventsAt("applyDoc", d[1], d[2]) = {}
                         \/ \A p \in EventsAt("applyDoc", d[1], d[2]) :
                               p < Len(run.log)

C4_Witness ==
    /\ run.ran
    /\ run.err # NoErr
    /\ DOMAIN fileToGenericResource = Files
    /\ run.log[Len(run.log)].op = "ApplyWithOwner"
    /\ run.log[Len(run.log)].idx = 1
    /\ Len(DocsOf(run.log[Len(run.log)].file)) = 2
    /\ run.log[Len(run.log)].err[1].type = "ResourceError"
    /\ Cardinality(EventsOf("applyDoc")) = 1

(* C5: in a run without error every registered collector (every entry of
   the collector list, in registration order) is asked once about every
   document and collects it exactly once when that Predicate call returned
   true and never otherwise, in file-then-document order, whether or not the
   filter lets the document be applied. *)
C5_CollectOncePerMatchingDocument ==
    (run.ran /\ run.err = NoErr)
    => /\ \A d \in AllDocs :
             \A k \in DOMAIN predicatedCollectors :
                LET asked == {p \in EventsAt("Predicate", d[1], d[2]) :
                                 run.log[p].k = k}
                    collected == {p \in EventsAt("Collect", d[1], d[2]) :
                                     run.log[p].k = k}
                IN  /\ Cardinality(asked) = 1
                    /\ Cardinality(collected) =
                          IF \E p \in asked : run.log[p].result = "true"
                          THEN 1 ELSE 0
                    /\ \A p \in collected :
                          /\ run.log[p].doc = DocsOf(d[1])[d[2]]
                          /\ run.log[p].who = predicatedCollectors[k]
       /\ \A p \in EventsOf("Collect") :
             /\ <<run.log[p].file, run.log[p].idx>> \in AllDocs
             /\ run.log[p].k \in DOMAIN predicatedCollectors
       /\ \A p, q \in EventsOf("Collect") :
             (p < q /\ run.log[p].k = run.log[q].k)
             => /\ run.log[p].file = run.log[q].file
                      => run.log[p].idx < run.log[q].idx
                /\ \A r \in EventsOf("Collect") :
                      (q < r /\ run.log[r].file = run.log[p].file)
                      => run.log[q].file = run.log[p].file

C5_Witness ==
    /\ run.ran
    /\ run.err = NoErr
    /\ applyFilter = "sa"
    /\ Len(predicatedCollectors) = 2
    /\ Cardinality(EventsOf("Collect")) >= 1
    /\ \E p \in EventsOf("Collect"), q \in EventsOf("Filter") :
          /\ run.log[p].file = run.log[q].file
          /\ run.log[p].idx = run.log[q].idx
          /\ run.log[q].result = "false"
    /\ EventsOf("ApplyWithOwner") # {}

(* C6: a document that reaches the filter step is passed to ApplyWithOwner,
   once, exactly when no filter is registered or the filter's Predicate
   returned true for it; after a false result the run goes on with the next
   document. *)
C6_AppliedIffFilterAdmits ==
    run.ran
    => /\ \A p \in EventsOf("applyDoc") :
             LET f == run.log[p].file
                 i == run.log[p].idx
                 reached == \A q \in EventsAt("Predicate", f, i) :
                               run.log[q].result # "err"
                 admitted == \/ applyFilter = "nil"
                             \/ \E q \in EventsAt("Filter", f, i) :
                                   run.log[q].result = "true"
             IN  /\ Cardinality(EventsAt("ApplyWithOwner", f, i)) =
                       IF reached /\ admitted THEN 1 ELSE 0
                 /\ \A q \in EventsAt("ApplyWithOwner", f, i) :
                       run.log[q].doc = run.log[p].doc
       /\ \A p \in EventsOf("Filter") :
             run.log[p].result = "false"
             => IF p < Len(run.log)
                THEN run.log[p + 1].op = "applyDoc"
                ELSE /\ run.err = NoErr
                     /\ Cardinality(EventsOf("applyDoc")) = Cardinality(AllDocs)

C6_Witness ==
    /\ run.ran
    /\ applyFilter = "sa"
    /\ \E p \in EventsOf("Filter"), q \in EventsOf("ApplyWithOwner") :
          /\ run.log[p].result = "false"
          /\ p < q
          /\ run.log[q].file = run.log[p].file
          /\ run.log[q].idx = run.log[p].idx + 1

(* C7: every render call of a run comes before its first collector, filter
   or apply call, and by then every file has been rendered; when a render
   call fails the run returns that error as it is and no document of any
   file is collected, filtered or applied. *)
C7_RenderPhaseFirst ==
    run.ran
    => /\ \A p, q \in DOMAIN run.log :
             (run.log[p].op = "renderTemplate" /\ run.log[q].op # "renderTemplate")
             => p < q
       /\ \A p \in EventsOf("renderTemplate") :
             run.log[p].result = "err"
             => /\ run.err = run.log[p].err
                /\ EventsOf("renderTemplate") = DOMAIN run.log
       /\ (EventsOf("renderTemplate") # DOMAIN run.log /\ DOMAIN fileToTemplate # {})
             => \A f \in DOMAIN fileToGenericResource :
                   \E p \in EventsOf("renderTemplate") :
                      run.log[p].file = f /\ run.log[p].result = "ok"

C7_Witness ==
    /\ run.ran
    /\ Len(run.log) = 2
    /\ run.log[1].op = "renderTemplate"
    /\ run.log[1].result = "ok"
    /\ Len(splitResourceIntoDocuments(run.log[1].doc)) = 2
    /\ run.log[2].op = "renderTemplate"
    /\ run.log[2].result = "err"
    /\ run.err = run.log[2].err

(* C8: only a file that has template data registered under its own filename
   is passed to the template engine; a file without template data of its own
   is never rendered, also when another file has template data. *)
C8_OnlyTemplatedFilesRendered ==
    run.ran
    => \A p \in EventsOf("renderTemplate") :
          run.log[p].file \in DOMAIN fileToTemplate

----------------------------------------------------------------------------
(* Properties of New and of the errors of the Applier *)

IsBlank(s) == \A i \in DOMAIN s : s[i] \in Whitespace

(* C11: New with an empty or all-whitespace fieldManager fails with the
   configuration error, builds nothing and touches neither discovery nor the
   client, whatever the cluster configuration; with any other fieldManager it
   succeeds exactly when the GVR mapper and the dynamic client can both be
   built, and then yields an Applier and a scheme. *)
C11_NewChecksFieldManagerFirst ==
    last.op = "New"
    => IF IsBlank(last.fieldManager)
       THEN /\ last.err =
                  Cause("cannot create new Applier: fieldManager must not be empty")
            /\ ac = NoApplier
            /\ last.calls = <<>>
            /\ \A c \in ClusterConfigs :
                  NewResult(c, last.fieldManager) =
                     NewResult(last.config, last.fieldManager)
       ELSE /\ last.err = NoErr
                  <=> /\ createGVRMapper(last.config) = NoErr
                      /\ createDynamicClient(last.config) = NoErr
            /\ last.err = NoErr
                  => /\ ac.built
                     /\ ac.scheme # "nil"
                     /\ ac.fieldManager = last.fieldManager
            /\ last.err # NoErr => ac = NoApplier

C11_Witness ==
    /\ last.op = "New"
    /\ last.fieldManager = <<" ", " ">>
    /\ last.config = "noDiscovery"
    /\ last.calls = <<>>
    /\ Head(last.err).msg =
          "cannot create new Applier: fieldManager must not be empty"

(* C12: for a namespace-scoped kind and an owner the reference cannot be set
   on (an owner of another namespace than the target, or of a type the scheme
   does not know), ApplyWithOwner returns the error that the controller
   reference could not be set, with the cause wrapped, and makes no patch
   call. *)
C12_OwnerFailureMakesNoPatch ==
    (/\ IsApplyCall
     /\ ~DecodeFailed
     /\ Answered("RESTMapping", "namespace")
     /\ last.owner # "nil"
     /\ \/ OwnerNamespace(last.owner) \notin {"", last.namespace}
        \/ ~OwnerRegistered(last.owner))
    => /\ OwnerSettingFailed
       /\ last.err # NoErr
       /\ Head(last.err).msg =
             "could not apply YAML doccument: could not set controller reference"
       /\ Head(last.err).doc = last.doc
       /\ Unwrap(last.err) # NoErr
       /\ CallsOf("Patch") = {}

C12_Witness ==
    /\ last.op = "ApplyWithOwner"
    /\ last.owner = "ownY"
    /\ last.namespace = "x"
    /\ Answered("RESTMapping", "namespace")
    /\ OwnerSettingFailed
    /\ Unwrap(last.err) = Cause("cross-namespace owner references are disallowed")
    /\ CallsOf("Patch") = {}

----------------------------------------------------------------------------
(* Properties of the errors ExecuteApply returns *)

PatchFailed(calls) ==
    \E i \in DOMAIN calls : calls[i].op = "Patch" /\ calls[i].outcome = "err"

LastEvent == run.log[Len(run.log)]

(* C13: when the patch call fails, the ApplyWithOwner call of the run
   returns a ResourceError whose Unwrap is exactly the error the client
   returned, and that error is still in the Unwrap chain of the error
   ExecuteApply returns for the document. *)
C13_PatchCauseStaysReachable ==
    run.ran
    => \A p \in EventsOf("ApplyWithOwner") :
          PatchFailed(run.log[p].calls)
          => /\ Head(run.log[p].err).type = "ResourceError"
             /\ Unwrap(run.log[p].err) = Cause("the API rejected the patch")
             /\ Unwrap(run.err) = run.log[p].err
             /\ IsSuffix(Cause("the API rejected the patch"), run.err)

C13_Witness ==
    /\ run.ran
    /\ Len(run.err) = 3
    /\ run.err[2].type = "ResourceError"
    /\ run.err[3] = Head(Cause("the API rejected the patch"))
    /\ LastEvent.op = "ApplyWithOwner"
    /\ PatchFailed(LastEvent.calls)
    /\ LastEvent.owner = "ownX"

(* C14: an error of the per-document phase comes back wrapped with the step
   that failed and the name of the file of the failing document, the
   original error kept in the Unwrap chain; an error of the render phase
   comes back as renderTemplate produced it. *)
C14_DocumentErrorsNameStepAndFile ==
    (run.ran /\ run.err # NoErr /\ run.log # <<>>)
    => /\ LastEvent.op \in {"renderTemplate", "Predicate", "Filter", "ApplyWithOwner"}
       /\ LastEvent.err # NoErr
       /\ LastEvent.op = "Predicate"
             => /\ Head(run.err).msg = "resource collection failed for file %s"
                /\ Head(run.err).file = LastEvent.file
                /\ IsSuffix(LastEvent.err, run.err)
       /\ LastEvent.op = "Filter"
             => /\ Head(run.err).msg = "filtering resource failed for file %s"
                /\ Head(run.err).file = LastEvent.file
                /\ Unwrap(run.err) = LastEvent.err
       /\ LastEvent.op = "ApplyWithOwner"
             => /\ Head(run.err).msg = "resource application failed for file %s"
                /\ Head(run.err).file = LastEvent.file
                /\ Unwrap(run.err) = LastEvent.err
       /\ LastEvent.op = "renderTemplate"
             => /\ run.err = LastEvent.err
                /\ Head(run.err).msg \in
                      {"failed to parse template for file %s",
                       "failed to render template for file %s"}
                /\ Head(run.err).file = LastEvent.file

C14_Witness ==
    /\ run.ran
    /\ run.err # NoErr
    /\ LastEvent.op = "Filter"
    /\ LastEvent.file = "f2"
    /\ LastEvent.who = "fail"
    /\ EventsOf("Collect") # {}
    /\ Head(run.err).msg = "filtering resource failed for file %s"
    /\ Head(run.err).file = "f2"

----------------------------------------------------------------------------
(* Properties of the splitter *)

ContainsSeparator(s) == \E i \in 1..Len(s) : SeparatorAt(s, i)

(* C15: documents that are not empty and do not contain the separator,
   joined with the separator between them, are split into exactly those
   documents in the same order. *)
C15_SplitInvertsJoin ==
    (/\ split.ran
     /\ \A i \in DOMAIN pieces :
           pieces[i] # <<>> /\ ~ContainsSeparator(pieces[i]))
    => split.sections = pieces

C15_Witness ==
    /\ split.ran
    /\ pieces = << <<"-", "-">>, <<"-", "\n">> >>
    /\ split.resourceBytes = <<"-", "-", "-", "-", "-", "\n", "-", "\n">>
    /\ split.sections = pieces

(* C16 as claimed: a resource without separator is split into one section,
   the trimmed resource, when there is something left after trimming, and
   into no section otherwise, so that whitespace alone is never a
   document. *)
C16_OneTrimmedSection ==
    (split.ran /\ ~ContainsSeparator(split.resourceBytes))
    => split.sections =
          IF TrimSpace(split.resourceBytes) = <<>>
          THEN <<>>
          ELSE <<TrimSpace(split.resourceBytes)>>

(* C16 amended: a resource without separator is split into one section, the
   resource byte for byte without trimming, when it is not empty, and into
   no section when it is empty; a resource of whitespace alone is one
   whitespace document. *)
C16_OneUntrimmedSection ==
    (split.ran /\ ~ContainsSeparator(split.resourceBytes))
    => split.sections =
          IF split.resourceBytes = <<>>
          THEN <<>>
          ELSE <<split.resourceBytes>>

C16_Witness ==
    /\ split.ran
    /\ split.resourceBytes = <<"\n", "\n">>
    /\ IsBlank(split.resourceBytes)
    /\ split.sections = << <<"\n", "\n">> >>

----------------------------------------------------------------------------
(* Properties of the builder's life cycle *)

Repeatable(A) == ENABLED (A /\ vars' # vars)

Applied(log) ==
    {<<log[p].file, log[p].idx, log[p].doc>> :
        p \in {q \in DOMAIN log : log[q].op = "ApplyWithOwner"}}

(* C17 as claimed: every configuration call is idempotent by key: the same
   call made again right after leaves the builder as the first call left
   it. *)
C17_EveryConfigCallIdempotent ==
    [][/\ \A f \in Files, y \in YamlResources :
             WithYamlResource(f, y) => (~Repeatable(WithYamlResource(f, y)))'
       /\ \A f \in Files, t \in TemplateObjects :
             WithTemplate(f, t) => (~Repeatable(WithTemplate(f, t)))'
       /\ \A o \in BuilderOwners : WithOwner(o) => (~Repeatable(WithOwner(o)))'
       /\ \A ns \in Namespaces :
             WithNamespace(ns) => (~Repeatable(WithNamespace(ns)))'
       /\ \A c \in Collectors :
             WithCollector(c) => (~Repeatable(WithCollector(c)))'
       /\ \A f \in Filters :
             WithApplyFilter(f) => (~Repeatable(WithApplyFilter(f)))'
      ]_vars

(* C17 amended: WithYamlResource, WithTemplate, WithOwner, WithNamespace and
   WithApplyFilter are idempotent by key, and a filename added again keeps
   the last value only; WithCollector is not: every call appends one entry,
   also for a collector that is in the list already. *)
C17_ConfigCallsIdempotentButWithCollector ==
    [][/\ \A f \in Files, y \in YamlResources :
             WithYamlResource(f, y)
             => /\ (~Repeatable(WithYamlResource(f, y)))'
                /\ fileToGenericResource'[f] = y
                /\ DOMAIN fileToGenericResource' =
                      DOMAIN fileToGenericResource \cup {f}
                /\ \A g \in DOMAIN fileToGenericResource \ {f} :
                      fileToGenericResource'[g] = fileToGenericResource[g]
       /\ \A f \in Files, t \in TemplateObjects :
             WithTemplate(f, t)
             => /\ (~Repeatable(WithTemplate(f, t)))'
                /\ fileToTemplate'[f] = t
                /\ DOMAIN fileToTemplate' = DOMAIN fileToTemplate \cup {f}
       /\ \A o \in BuilderOwners : WithOwner(o) => (~Repeatable(WithOwner(o)))'
       /\ \A ns \in Namespaces :
             WithNamespace(ns) => (~Repeatable(WithNamespace(ns)))'
       /\ \A f \in Filters :
             WithApplyFilter(f) => (~Repeatable(WithApplyFilter(f)))'
       /\ \A c \in Collectors :
             WithCollector(c)
             => /\ predicatedCollectors' = Append(predicatedCollectors, c)
                /\ Len(predicatedCollectors') = Len(predicatedCollectors) + 1
      ]_vars

C17_Witness ==
    /\ predicatedCollectors = <<"ns", "ns">>
    /\ DOMAIN fileToGenericResource = Files
    /\ fileToGenericResource["f1"] = singleDoc
    /\ DOMAIN fileToTemplate = {"f1"}
    /\ applyFilter = "sa"
    /\ ~run.ran

(* C18 as claimed: the builder is single-use: once ExecuteApply has
   returned, no further step of the same builder, configuration call or
   ExecuteApply, leads to an ApplyWithOwner call. *)
C18_SingleUse ==
    [][run.ran => Applied(run'.log) = {}]_vars

(* C18 amended: the builder keeps no record of having run: ExecuteApply
   leaves the files (rendered), the template data, owner, namespace,
   collectors and filter in place, and after a run without error another
   ExecuteApply on the same builder can apply the same documents again. *)
C18_BuilderIsReusable ==
    /\ []((run.ran /\ run.err = NoErr)
          => \E r \in ExecuteApplyResults :
                r.err = NoErr /\ Applied(r.log) = Applied(run.log))
    /\ [][run'.ran
          => /\ DOMAIN fileToGenericResource' = DOMAIN fileToGenericResource
             /\ UNCHANGED <<fileToTemplate, owningResource, namespace,
                            predicatedCollectors, applyFilter>>]_vars

C18_Witness ==
    /\ run.ran
    /\ run.err = NoErr
    /\ \E p \in EventsOf("renderTemplate") :
          /\ run.log[p].doc \notin YamlResources
          /\ Len(splitResourceIntoDocuments(run.log[p].doc)) = 2
    /\ Cardinality(Applied(run.log)) = 2

----------------------------------------------------------------------------
(* Properties of the order in which ExecuteApply visits the documents *)

Visited(log) == {p \in DOMAIN log : log[p].op = "applyDoc"}

FirstFile(log) ==
    log[CHOOSE p \in Visited(log) : \A q \in Visited(log) : p <= q].file

(* C19: the documents ExecuteApply processes are, file after file in some
   order of the files, the documents of each file in the order they have in
   the file: none is reordered or left out within a file, and the documents
   of two files are not interleaved. *)
C19_DocumentsInFileOrder ==
    run.ran
    => /\ \A p \in Visited(run.log) :
             /\ run.log[p].file \in DOMAIN fileToGenericResource
             /\ run.log[p].idx \in 1..Len(DocsOf(run.log[p].file))
             /\ run.log[p].doc = DocsOf(run.log[p].file)[run.log[p].idx]
             /\ run.log[p].idx > 1
                   => \E q \in Visited(run.log) :
                         /\ q < p
                         /\ run.log[q].file = run.log[p].file
                         /\ run.log[q].idx = run.log[p].idx - 1
       /\ \A p, q \in Visited(run.log) :
             (p < q /\ run.log[p].file = run.log[q].file)
             => /\ run.log[p].idx < run.log[q].idx
                /\ \A r \in Visited(run.log) :
                      (p < r /\ r < q) => run.log[r].file = run.log[p].file
       /\ \A p, q \in Visited(run.log) :
             (p < q /\ run.log[p].file # run.log[q].file)
             => \A i \in 1..Len(DocsOf(run.log[p].file)) :
                   \E r \in Visited(run.log) :
                      /\ r < q
                      /\ run.log[r].file = run.log[p].file
                      /\ run.log[r].idx = i
       /\ run.err = NoErr
             => \A d \in AllDocs :
                   \E p \in Visited(run.log) :
                      run.log[p].file = d[1] /\ run.log[p].idx = d[2]

C19_Witness ==
    /\ run.ran
    /\ run.err = NoErr
    /\ Cardinality(Visited(run.log)) = 3
    /\ FirstFile(run.log) = "f2"
    /\ Len(DocsOf("f2")) = 2
    /\ Len(DocsOf("f1")) = 1
    /\ \E p \in Visited(run.log) : run.log[p].file = "f1"

(* C20 as claimed: the order in which the files are visited is fixed by the
   configuration: any two runs the same builder state allows visit the same
   file first. *)
C20_FileOrderStable ==
    \A r1, r2 \in ExecuteApplyResults :
       (Visited(r1.log) # {} /\ Visited(r2.log) # {})
       => FirstFile(r1.log) = FirstFile(r2.log)

(* C20 amended: the order in which the files are visited is not fixed by the
   configuration: every file whose documents a run can reach can also be the
   file a run visits first, so two runs of the same configuration may make
   their calls in different file orders and a failing run may stop in either
   file.  The runs are those of the configuration as it stands after a
   configuration call; a run leaves the configuration as it is but for the
   rendered bytes, and the configuration it leaves is again the result of a
   configuration call (the repeated WithTemplate of a templated file). *)
C20_AnyFileCanBeFirst ==
    ~run.ran
    => LET results == ExecuteApplyResults
           reached == UNION { {r.log[p].file : p \in Visited(r.log)}
                              : r \in results }
           first == {FirstFile(r.log)
                     : r \in {x \in results : Visited(x.log) # {}}}
       IN  reached \subseteq first

C20_Witness ==
    /\ run.ran
    /\ run.err # NoErr
    /\ DOMAIN fileToTemplate = {}
    /\ Cardinality(Visited(run.log)) = 1
    /\ LastEvent.file = "f2"
    /\ \E r \in ExecuteApplyResults :
          /\ r.err # NoErr
          /\ Cardinality(Visited(r.log)) = 1
          /\ r.log[Len(r.log)].file = "f1"

(* C21: every ApplyWithOwner call a run of ExecuteApply makes carries the
   builder's namespace and the builder's owner (nil when none was set), the
   same values for all the documents of the run; the patch calls made on its
   behalf use that namespace and that owner. *)
C21_RunCarriesNamespaceAndOwner ==
    run.ran
    => \A p \in EventsOf("ApplyWithOwner") :
          /\ run.log[p].namespace = namespace
          /\ run.log[p].owner = owningResource
          /\ \A q \in EventsOf("ApplyWithOwner") :
                /\ run.log[q].namespace = run.log[p].namespace
                /\ run.log[q].owner = run.log[p].owner
          /\ \A i \in DOMAIN run.log[p].calls :
                LET call == run.log[p].calls[i]
                IN  /\ (call.op \in {"Namespace", "Patch"} /\ call.namespace # "")
                          => call.namespace = namespace
                    /\ call.op = "SetControllerReference"
                          => call.owner = owningResource
                    /\ (call.op = "Patch" /\ call.payload.ownerRef # "nil")
                          => call.payload.ownerRef = owningResource

C21_Witness ==
    /\ run.ran
    /\ run.err = NoErr
    /\ namespace = "x"
    /\ owningResource = "ownX"
    /\ Cardinality(EventsOf("ApplyWithOwner")) >= 2
    /\ \E p \in EventsOf("ApplyWithOwner") :
          \E i \in DOMAIN run.log[p].calls :
             /\ run.log[p].calls[i].op = "Patch"
             /\ run.log[p].calls[i].payload.ownerRef = "ownX"

(* C22: when ApplyWithOwner or Apply succeeds, the patched payload carries
   a controller owner reference to the supplied owner exactly when the kind
   resolved to namespace scope and the owner is not nil; otherwise, and always
   for Apply, it carries none. *)
C22_OwnerReferenceIffNamespacedAndOwned ==
    (IsApplyCall /\ last.err = NoErr)
    => /\ CallsOf("Patch") # {}
       /\ \A i \in CallsOf("Patch") :
             /\ last.calls[i].payload.ownerRef =
                   IF Answered("RESTMapping", "namespace") /\ last.owner # "nil"
                   THEN last.owner
                   ELSE "nil"
             /\ last.op = "Apply" => last.calls[i].payload.ownerRef = "nil"

C22_Witness ==
    /\ last.op = "ApplyWithOwner"
    /\ last.err = NoErr
    /\ last.owner = "ownY"
    /\ Answered("RESTMapping", "namespace")
    /\ \E i \in CallsOf("Patch") : last.calls[i].payload.ownerRef = "ownY"

DocumentSteps == {"Predicate", "Collect", "Filter", "ApplyWithOwner"}

(* The place of an event among the steps of its document: entering the
   document, the k-th collector, then the filter, then the apply. *)
StepRank(ev) ==
    IF ev.op = "applyDoc" THEN 0
    ELSE IF ev.op \in {"Predicate", "Collect"} THEN ev.k
    ELSE IF ev.op = "Filter" THEN Len(predicatedCollectors) + 1
    ELSE Len(predicatedCollectors) + 2

(* C23: for each document the steps run in the order collectors (in the
   order they were registered), filter, ApplyWithOwner, a collector's Collect
   right after its Predicate; every step directly follows the entering of its
   document or an earlier step of the same document, and no document is
   entered twice, so all steps of a document are over before the first
   collector is asked about the next one. *)
C23_StepsInOrderPerDocument ==
    run.ran
    => /\ \A p \in DOMAIN run.log :
             run.log[p].op \in DocumentSteps
             => /\ p > 1
                /\ run.log[p - 1].op \in DocumentSteps \cup {"applyDoc"}
                /\ run.log[p - 1].file = run.log[p].file
                /\ run.log[p - 1].idx = run.log[p].idx
                /\ \/ StepRank(run.log[p - 1]) < StepRank(run.log[p])
                   \/ /\ StepRank(run.log[p - 1]) = StepRank(run.log[p])
                      /\ run.log[p - 1].op = "Predicate"
                      /\ run.log[p].op = "Collect"
                /\ run.log[p].op \in {"Predicate", "Collect"}
                      => /\ run.log[p].k \in 1..Len(predicatedCollectors)
                         /\ run.log[p].who = predicatedCollectors[run.log[p].k]
                /\ run.log[p].op = "Collect"
                      => /\ run.log[p - 1].op = "Predicate"
                         /\ run.log[p - 1].result = "true"
       /\ \A m, n \in Visited(run.log) :
             (run.log[m].file = run.log[n].file /\ run.log[m].idx = run.log[n].idx)
             => m = n

C23_Witness ==
    /\ run.ran
    /\ Len(predicatedCollectors) = 2
    /\ \E f \in EventsOf("Filter") :
       \E a \in EventsOf("ApplyWithOwner") :
       \E q \in EventsOf("Predicate") :
       \E c \in EventsOf("Collect") :
          /\ f < a /\ a < q /\ q < c
          /\ run.log[q].k = 1

RenderFailed(r) ==
    /\ r.ran
    /\ r.err # NoErr
    /\ r.log # <<>>
    /\ r.log[Len(r.log)].op = "renderTemplate"

Rendered(log, filename) ==
    \E p \in DOMAIN log :
       /\ log[p].op = "renderTemplate"
       /\ log[p].file = filename
       /\ log[p].result = "ok"

(* C24 as claimed: rendering is all-or-nothing for the builder's state: when
   the render phase fails for some file, the stored bytes of every file are
   still the ones the caller supplied; when it succeeds, the bytes of every
   templated file have been replaced by their rendering. *)
C24_RenderAllOrNothing ==
    [][ /\ RenderFailed(run')
           => fileToGenericResource' = fileToGenericResource
        /\ (run'.ran /\ ~RenderFailed(run'))
           => \A f \in DOMAIN fileToTemplate \cap DOMAIN fileToGenericResource :
                 fileToGenericResource'[f] =
                    renderTemplate(f, fileToGenericResource[f],
                                   fileToTemplate[f]).bytes ]_vars

(* C24 amended: rendering replaces the stored bytes file by file: after a run
   a file holds its rendering exactly when the run rendered it without error,
   and the bytes the caller supplied otherwise.  When the render phase fails
   for some file, the files rendered before it in that run keep their
   rendering and the failing file and the files not yet reached keep their
   bytes; when it succeeds and some template data is registered, every file
   holds its rendering. *)
C24_RenderReplacesFileByFile ==
    [][ run'.ran
        => /\ DOMAIN fileToGenericResource' = DOMAIN fileToGenericResource
           /\ \A f \in DOMAIN fileToGenericResource :
                 fileToGenericResource'[f] =
                    IF Rendered(run'.log, f)
                    THEN renderTemplate(f, fileToGenericResource[f],
                                        TemplateOf(fileToTemplate, f)).bytes
                    ELSE fileToGenericResource[f]
           /\ RenderFailed(run')
                 => ~Rendered(run'.log, run'.log[Len(run'.log)].file)
           /\ (~RenderFailed(run') /\ DOMAIN fileToTemplate # {})
                 => \A f \in DOMAIN fileToGenericResource :
                       Rendered(run'.log, f) ]_vars

C24_Witness ==
    /\ RenderFailed(run)
    /\ Len(run.log) = 2
    /\ run.log[1].result = "ok"
    /\ run.log[1].file # run.log[2].file
    /\ fileToGenericResource[run.log[1].file] # run.log[1].doc
    /\ fileToGenericResource[run.log[2].file] = run.log[2].doc

(* C25: ExecuteApply changes nothing in the builder but the bytes of files,
   and those only by rendering them in the render phase: the bytes a file
   holds after the run differ from the ones before only if the run rendered
   the file, the documents the run walks through are the split of the bytes
   the builder holds after the run, and namespace, owner, template data,
   collectors, filter and the Applier are the same after the run as before
   it, whether the run fails or not. *)
C25_RunOnlyRendersFiles ==
    [][ run'.ran
        => /\ fileToTemplate' = fileToTemplate
           /\ owningResource' = owningResource
           /\ namespace' = namespace
           /\ predicatedCollectors' = predicatedCollectors
           /\ applyFilter' = applyFilter
           /\ ac' = ac
           /\ \A f \in DOMAIN fileToGenericResource :
                 fileToGenericResource'[f] # fileToGenericResource[f]
                 => Rendered(run'.log, f)
           /\ DOMAIN fileToTemplate = {}
                 => fileToGenericResource' = fileToGenericResource
           /\ \A p \in Visited(run'.log) :
                 LET docs == splitResourceIntoDocuments(
                                fileToGenericResource'[run'.log[p].file])
                 IN  /\ run'.log[p].idx \in DOMAIN docs
                     /\ run'.log[p].doc = docs[run'.log[p].idx] ]_vars

C25_Witness ==
    /\ run.ran
    /\ run.err # NoErr
    /\ LastEvent.op = "ApplyWithOwner"
    /\ DOMAIN fileToTemplate # {}
    /\ predicatedCollectors # <<>>
    /\ applyFilter # "nil"
    /\ namespace = "x"
    /\ owningResource # "nil"
    /\ \E p \in EventsOf("renderTemplate") :
          fileToGenericResource[run.log[p].file] # run.log[p].doc

(* The handle a call patches on follows the answer the locator gave in that
   very call. *)
HandleFollowsAnswer ==
    /\ Answered("RESTMapping", "namespace")
          => /\ CallsOf("Namespace") # {}
             /\ \A i \in CallsOf("Patch") :
                   /\ last.calls[i].namespaced
                   /\ last.calls[i].namespace = last.namespace
    /\ Answered("RESTMapping", "root")
          => /\ CallsOf("Namespace") = {}
             /\ \A i \in CallsOf("Patch") : ~last.calls[i].namespaced
    /\ Answered("RESTMapping", "err")
          => CallsOf("Resource") \cup CallsOf("Patch") = {}

(* C26: the mapping from a document's kind to its resource is resolved anew
   in every call: a call whose document decodes asks the locator exactly
   once, for the document's kind and version and before any handle is taken,
   a call whose document does not decode never asks; the Applier is the same
   after the call as before, so no mapping is kept, and when the locator
   answers the second of two calls differently from the first, the second
   call's scope and handle follow the second answer. *)
C26_MappingResolvedInEveryCall ==
    /\ [](IsApplyCall
          => /\ Cardinality(CallsOf("RESTMapping")) =
                   IF DecodeFailed THEN 0 ELSE 1
             /\ \A i \in CallsOf("RESTMapping") :
                   /\ i = 1
                   /\ last.calls[i].kind = Decode(last.doc).obj.kind
                   /\ last.calls[i].version = Decode(last.doc).obj.apiVersion
             /\ HandleFollowsAnswer)
    /\ [][ (IsApplyCall /\ IsApplyCall')
           => /\ ac' = ac
              /\ ( /\ Answered("RESTMapping", "namespace")
                   /\ Answered("RESTMapping", "root")' )
                 => \A i \in CallsOf("Patch")' : ~last'.calls[i].namespaced
              /\ ( /\ Answered("RESTMapping", "root")
                   /\ Answered("RESTMapping", "namespace")' )
                 => \A i \in CallsOf("Patch")' : last'.calls[i].namespaced ]_vars

C26_Witness ==
    /\ IsApplyCall
    /\ ac.cluster = "any"
    /\ Decode(last.doc).ok
    /\ Decode(last.doc).obj.kind = "ServiceAccount"
    /\ Cardinality(CallsOf("RESTMapping")) = 1
    /\ Answered("RESTMapping", "root")
    /\ \E i \in CallsOf("Patch") : ~last.calls[i].namespaced

AtLineStart(s, i) == i = 1 \/ s[i - 1] = "\n"

(* C27 as claimed: the splitter cuts only at separator tokens that stand on
   a line of their own: the sections are non-empty and free of the separator,
   and a resource in which the separator's bytes occur only in the middle of
   a line is returned as one section. *)
C27_CutsOnlyAtSeparatorLines ==
    split.ran
    => /\ \A i \in DOMAIN split.sections :
             /\ split.sections[i] # <<>>
             /\ ~ContainsSeparator(split.sections[i])
       /\ ( /\ split.resourceBytes # <<>>
            /\ \A i \in 1..Len(split.resourceBytes) :
                  SeparatorAt(split.resourceBytes, i)
                  => ~AtLineStart(split.resourceBytes, i) )
          => split.sections = <<split.resourceBytes>>

(* C27 amended: the splitter cuts at every occurrence of the separator's
   bytes, wherever in a line it stands: the sections are non-empty and free of
   the separator, and a resource joined from texts that are free of the
   separator is split into exactly the non-empty ones of these texts, in
   their order, also when a text does not end with a newline and the
   separator therefore follows it in the middle of a line. *)
C27_CutsAtEverySeparator ==
    split.ran
    => /\ \A i \in DOMAIN split.sections :
             /\ split.sections[i] # <<>>
             /\ ~ContainsSeparator(split.sections[i])
       /\ (\A i \in DOMAIN pieces : ~ContainsSeparator(pieces[i]))
          => split.sections = SelectSeq(pieces, LAMBDA d : d # <<>>)

C27_Witness ==
    /\ split.ran
    /\ split.resourceBytes = <<"a">> \o yamlFileSeparator \o <<"a">>
    /\ pieces = <<<<"a">>, <<"a">>>>
    /\ ~AtLineStart(split.resourceBytes, 2)
    /\ split.sections = <<<<"a">>, <<"a">>>>

(* C28: Apply(doc, ns) behaves exactly as ApplyWithOwner(doc, ns, nil): for
   every document and namespace the two have the same possible outcomes (the
   same calls on the locator and the client, the same payload, the same
   error), and what a call of Apply did is an outcome of ApplyWithOwner with
   a nil owner. *)
C28_ApplyIsApplyWithNilOwner ==
    ac.built
    => /\ \A d \in Documents : \A ns \in Namespaces :
             ApplyResults(ac, d, ns) = ApplyWithOwnerResults(ac, d, ns, "nil")
       /\ last.op = "Apply"
             => /\ last.owner = "nil"
                /\ [calls |-> last.calls, err |-> last.err]
                      \in ApplyWithOwnerResults(ac, last.doc, last.namespace, "nil")
                /\ CallsOf("SetControllerReference") = {}

C28_Witness ==
    /\ last.op = "Apply"
    /\ last.err = NoErr
    /\ Answered("RESTMapping", "namespace")
    /\ \E i \in CallsOf("Patch") :
          /\ last.calls[i].namespaced
          /\ last.calls[i].payload.ownerRef = "nil"
    /\ CallsOf("SetControllerReference") = {}

(* C29: the errors of the steps before the patch carry the texts the tests
   assert: a decode failure reads "could not decode YAML document", a
   resolution failure reads "could not find GVK mapper for GroupKind=<kind>,
   Version=<version> and YAML document", names the document's kind and
   version and keeps the locator's error in its Unwrap chain, and an owner
   failure reads "could not apply YAML document" and "could not set
   controller reference". *)
C29_ErrorTextsAsTested ==
    IsApplyCall
    => /\ DecodeFailed
             => /\ last.err # NoErr
                /\ last.err[1].msg = "could not decode YAML document"
       /\ (~DecodeFailed /\ ResolutionFailed)
             => /\ last.err # NoErr
                /\ last.err[1].msg =
                      "could not find GVK mapper for GroupKind=%v,Version=%s and YAML document"
                /\ last.err[1].kind = Decode(last.doc).obj.kind
                /\ last.err[1].apiVersion = Decode(last.doc).obj.apiVersion
                /\ IsSuffix(Cause("no matches for kind"), last.err)
       /\ OwnerSettingFailed
             => /\ last.err # NoErr
                /\ last.err[1].msg =
                      "could not apply YAML document: could not set controller reference"

FailedPredicates ==
    {p \in EventsOf("Predicate") : run.log[p].result = "err"}

(* C30: when the Predicate of the k-th collector fails for a document, the
   run ends there with an error: the collectors before it have been asked
   about the document and those among them that matched have collected it,
   which stays as it is; no collector after the k-th is asked, the filter is
   not evaluated and the document is not applied. *)
C30_FailingCollectorEndsDocument ==
    run.ran
    => \A p \in FailedPredicates :
          LET ev == run.log[p]
              ofDoc == {q \in DOMAIN run.log :
                           /\ run.log[q].op \in DocumentSteps
                           /\ run.log[q].file = ev.file
                           /\ run.log[q].idx = ev.idx}
          IN  /\ p = Len(run.log)
              /\ run.err # NoErr
              /\ \A j \in 1..(ev.k - 1) :
                    \E q \in ofDoc :
                       /\ q < p
                       /\ run.log[q].op = "Predicate"
                       /\ run.log[q].k = j
                       /\ run.log[q].result # "err"
                       /\ Predicate(predicatedCollectors[j], ev.doc) = "true"
                             => /\ run.log[q + 1].op = "Collect"
                                /\ run.log[q + 1].k = j
                                /\ run.log[q + 1].doc = ev.doc
              /\ \A q \in ofDoc :
                    /\ run.log[q].op \notin {"Filter", "ApplyWithOwner"}
                    /\ run.log[q].k <= ev.k
                    /\ run.log[q].k = ev.k => q = p

C30_Witness ==
    /\ run.ran
    /\ run.err # NoErr
    /\ applyFilter # "nil"
    /\ LastEvent.op = "Predicate"
    /\ LastEvent.result = "err"
    /\ LastEvent.k = 2
    /\ run.log[Len(run.log) - 1].op = "Collect"
    /\ run.log[Len(run.log) - 1].k = 1
    /\ run.log[Len(run.log) - 1].doc = LastEvent.doc

====
